---- MODULE Spec2Model ----
(***************************************************************************)
(* The overlay suggestion engine of cursor-for-writing: the tiptap         *)
(* extension 'diff' (src/unnamed/part_002) with its storage, its three     *)
(* commands and its decoration plugin, driven by an editable document.     *)
(*                                                                         *)
(* The document is the text of one text block: a sequence of characters,   *)
(* with positions 0..Len(doc) between the characters (the node tokens of   *)
(* a ProseMirror document and its marks are not represented, so the mark   *)
(* steps of acceptDiff, which leave the text alone, do not appear).  An id *)
(* `mod-${n}` is represented by the number n it is formatted from.         *)
(* Under Spec and SpecIds the selection is a caret (selFrom = selTo).      *)
(*                                                                         *)
(* The same editor carries the extension 'autocomplete' of                 *)
(* MarkdownEditor.tsx (the inline completion: a debounce timer, the        *)
(* requests to /api/autocomplete, the ghost text and its Tab handler) and  *)
(* is driven by generateAIContent of Layout.tsx.  Each of them has its own *)
(* specification below; what a specification does not drive stays as Init  *)
(* leaves it.                                                              *)
(***************************************************************************)
EXTENDS Integers, Sequences, FiniteSets, Bags, TLC

\* ---------------------------------------------------------------- bounds
\* Longest document the user's typing and an accepted suggestion may produce.
MaxDocLen == 2
\* addDiff is not called while modificationCounter has reached this value.
MaxCounter == 2

\* The character the user types, and the replacement texts a suggestion
\* may carry (a deletion, one character).
TypedChar == "a"
NewTexts == { <<>>, <<"x">> }

VARIABLES
    doc,                  \* editor.state.doc, as text
    selFrom,              \* editor.state.selection.from
    selTo,                \* editor.state.selection.to
    modifications,        \* this.storage.modifications
    modificationCounter,  \* this.storage.modificationCounter
    decorations,          \* the state of the plugin 'diffDecorations'
    last,                 \* the last operation, what it returned, and how
                          \* many document-changing transactions it dispatched
    issued                \* the ids addDiff has assigned so far (.once) and
                          \* those it has assigned more than once (.again);
                          \* recorded under SpecIds only

VARIABLES
    currentSuggestion,    \* Autocomplete: let currentSuggestion (<<>>: null)
    suggestionTimer,      \* Autocomplete: suggestionTimer and what its
                          \* callback has captured
    inflight,             \* the fetches of /api/autocomplete not yet settled
                          \* (a bag of requests)
    ghost,                \* what the plugin 'suggestion' has on screen
    nodeType,             \* the type name of the node that holds the text
    burst,                \* the user's last transaction: whether a key
                          \* typed it, the ms since (up to DebounceMs),
                          \* whether a fetch has started since
    shown,                \* the suggestions installed so far; counted under
                          \* SpecShown only
    failed,               \* whether a fetch has failed; kept under
                          \* SpecFetches only
    chat                  \* Layout: isGenerating, aiOutput, and the
                          \* currentContent of the request in flight

\* The state of the extension 'autocomplete', and that of the extension
\* 'diff'.
autoState == <<currentSuggestion, suggestionTimer, inflight, ghost, nodeType>>
autoVars == <<autoState, burst, shown, failed>>
diffVars == <<modifications, modificationCounter, decorations, issued>>

vars == <<doc, selFrom, selTo, modifications, modificationCounter,
          decorations, last, issued, autoVars, chat>>

\* ------------------------------------------------------- the document
\* A replaceWith that inserts text after the span and deletes nothing.
ReplaceWithKeepsSpan(d, from, to, text) ==
    SubSeq(d, 1, to) \o text \o SubSeq(d, to + 1, Len(d))

\* Transform.replaceWith(from, to, text): the span [from, to) gives way
\* to text.
ReplaceWith(d, from, to, text) ==
    SubSeq(d, 1, from) \o text \o SubSeq(d, to + 1, Len(d))

\* StepMap.map(pos, assoc = 1) for the step that replaces [start, end) by
\* newSize characters: how a selection endpoint moves through the step.
MapPos(pos, start, end, newSize) ==
    IF pos < start THEN pos
    ELSE IF pos > end THEN pos + newSize - (end - start)
    ELSE IF end > start /\ pos = start THEN start
    ELSE start + newSize

\* ------------------------------------------------ Modification, storage
Modification(id, from, to, newText) ==
    [id |-> id, from |-> from, to |-> to, newText |-> newText]

\* Array.prototype.filter(m => m.id !== id)
RECURSIVE FilterOutId(_, _)
FilterOutId(mods, id) ==
    IF mods = <<>> THEN <<>>
    ELSE IF Head(mods).id # id
         THEN <<Head(mods)>> \o FilterOutId(Tail(mods), id)
         ELSE FilterOutId(Tail(mods), id)

\* A find predicate that forgets the lower end of the range.
InApproximateRangeNoLowerEnd(mod, pos) ==
    pos <= mod.to + Len(mod.newText)

\* The predicate of acceptDiff's find: the caret is within the span or
\* within newText.length after it.
InApproximateRange(mod, pos) ==
    pos >= mod.from /\ pos <= mod.to + Len(mod.newText)

\* Array.prototype.find: the index of the first element that satisfies the
\* predicate, 0 when there is none (undefined).
FindModification(mods, pos) ==
    LET hits == { i \in DOMAIN mods : InApproximateRange(mods[i], pos) }
    IN  IF hits = {} THEN 0
        ELSE CHOOSE i \in hits : \A j \in hits : i <= j

\* ------------------------------------------------------ the decorations
\* DecorationSet.create drops the inline decorations that cover nothing
\* (InlineType.valid is from < to); a widget is always kept.
DecorationSetCreate(decos) ==
    { d \in decos : d.type = "widget" \/ d.from < d.to }

\* createDecorationsForPlugin: for every stored modification an inline
\* 'diff-delete' decoration over [from, to) and a 'diff-insert' widget at
\* to showing newText, from the positions as stored.
createDecorationsForPlugin(mods) ==
    DecorationSetCreate(
        { [type |-> "inline", from |-> mods[i].from, to |-> mods[i].to,
           text |-> <<>>, id |-> mods[i].id] : i \in DOMAIN mods }
        \cup
        { [type |-> "widget", from |-> mods[i].to, to |-> mods[i].to,
           text |-> mods[i].newText, id |-> mods[i].id] : i \in DOMAIN mods })

\* The plugin state's apply: recreated from the storage when the
\* transaction carries the meta 'diffUpdate' or changed the document;
\* otherwise mapped through the transaction's (then empty) mapping.
apply(diffUpdate, docChanged, oldSet, mods) ==
    IF diffUpdate \/ docChanged
    THEN createDecorationsForPlugin(mods)
    ELSE oldSet

Did(op, ret, tr) == [op |-> op, ret |-> ret, tr |-> tr]

\* ------------------------------------------ the autocomplete's values
\* The delay of the debounce timer, in ms.
DebounceMs == 2000

\* currentSuggestion = null.  The code tests currentSuggestion and a
\* completion for truthiness only, which null and '' both fail.
NoSuggestion == <<>>

\* A state object a callback has captured is told by whether it still is
\* view.state ("current") or the view has gone on to a newer one ("old"):
\* every dispatch makes a new state object.
\* suggestionTimer with no callback pending.
TimerOff ==
    [armed |-> FALSE, state |-> "old", text |-> <<>>, left |-> 0]

\* ------------------------------------------------------------- Init
\* The editor after construction: content '<h1></h1><p></p>' (no text,
\* the selection in the heading), the storage of addStorage, the
\* decorations of the plugin's init, the closure variables of
\* addProseMirrorPlugins, the React state of Layout.
Init ==
    /\ doc = <<>>
    /\ selFrom = 0
    /\ selTo = 0
    /\ modifications = <<>>
    /\ modificationCounter = 0
    /\ decorations = createDecorationsForPlugin(<<>>)
    /\ last = Did("init", "none", 0)
    /\ issued = [once |-> {}, again |-> {}]
    /\ currentSuggestion = NoSuggestion
    /\ suggestionTimer = TimerOff
    /\ inflight = EmptyBag
    /\ ghost = {}
    /\ nodeType = "heading"
    /\ burst = [typed |-> FALSE, since |-> 0, fetched |-> FALSE]
    /\ shown = 0
    /\ failed = FALSE
    /\ chat = [isGenerating |-> FALSE, aiOutput |-> "none",
               currentContent |-> <<>>]

\* ------------------------------------------------- the user's editing
\* A click or drag: a transaction that only sets the selection.
userSetSelection(f, t) ==
    /\ <<f, t>> # <<selFrom, selTo>>
    /\ selFrom' = f
    /\ selTo' = t
    /\ decorations' = apply(FALSE, FALSE, decorations, modifications)
    /\ last' = Did("setSelection", "none", 0)
    /\ UNCHANGED <<doc, modifications, modificationCounter, issued,
                    autoVars, chat>>

\* The caret placed anywhere in the document.
userSetCaret ==
    \E p \in 0..Len(doc) : userSetSelection(p, p)

\* A typed character: replaces the selection, the caret ends after it.
userInsertText ==
    /\ Len(doc) - (selTo - selFrom) + 1 <= MaxDocLen
    /\ doc' = ReplaceWith(doc, selFrom, selTo, <<TypedChar>>)
    /\ selFrom' = selFrom + 1
    /\ selTo' = selFrom + 1
    /\ decorations' = apply(FALSE, TRUE, decorations, modifications)
    /\ last' = Did("insertText", "none", 1)
    /\ UNCHANGED <<modifications, modificationCounter, issued,
                    autoVars, chat>>

\* Backspace: deletes the selection, or the character before the caret.
userDeleteText ==
    LET from == IF selFrom < selTo THEN selFrom ELSE selFrom - 1
    IN  /\ from >= 0
        /\ doc' = ReplaceWith(doc, from, selTo, <<>>)
        /\ selFrom' = from
        /\ selTo' = from
        /\ decorations' = apply(FALSE, TRUE, decorations, modifications)
        /\ last' = Did("deleteText", "none", 1)
        /\ UNCHANGED <<modifications, modificationCounter, issued,
                        autoVars, chat>>

\* ------------------------------------------------------- the commands
\* An addDiff that writes the proposed text into the document at once.
addDiffDirectInsertion(from, to, newText) ==
    /\ modificationCounter < MaxCounter
    /\ modificationCounter' = modificationCounter + 1
    /\ modifications' =
           Append(modifications,
                  Modification(modificationCounter, from, to, newText))
    /\ doc' = ReplaceWith(doc, from, to, newText)
    /\ Len(doc') <= MaxDocLen
    /\ decorations' = apply(TRUE, TRUE, decorations, modifications')
    /\ last' = Did("addDiff", "true", 1)
    /\ UNCHANGED <<selFrom, selTo, autoVars, chat>>

\* An addDiff that reads the counter without incrementing it.
addDiffNoIncrement(from, to, newText) ==
    /\ modificationCounter < MaxCounter
    /\ Len(modifications) < MaxCounter
    /\ modificationCounter' = modificationCounter
    /\ modifications' =
           Append(modifications,
                  Modification(modificationCounter, from, to, newText))
    /\ decorations' = apply(TRUE, FALSE, decorations, modifications')
    /\ last' = Did("addDiff", "true", 0)
    /\ UNCHANGED <<doc, selFrom, selTo, autoVars, chat>>

\* addDiff: the next id, the modification appended, and a transaction
\* that carries only the meta 'diffUpdate'.
addDiff(from, to, newText) ==
    /\ modificationCounter < MaxCounter
    /\ modificationCounter' = modificationCounter + 1
    /\ modifications' =
           Append(modifications,
                  Modification(modificationCounter, from, to, newText))
    /\ decorations' = apply(TRUE, FALSE, decorations, modifications')
    /\ last' = Did("addDiff", "true", 0)
    /\ UNCHANGED <<doc, selFrom, selTo, autoVars, chat>>

\* A clearDiffs that empties the storage and dispatches nothing.
clearDiffsNoUpdate ==
    /\ modifications' = <<>>
    /\ modificationCounter' = 0
    /\ decorations' = decorations
    /\ last' = Did("clearDiffs", "true", 0)
    /\ UNCHANGED <<doc, selFrom, selTo, issued, autoVars, chat>>

\* clearDiffs: the storage emptied, the counter back to 0, and a
\* transaction that carries only the meta 'diffUpdate'.
clearDiffs ==
    /\ modifications' = <<>>
    /\ modificationCounter' = 0
    /\ decorations' = apply(TRUE, FALSE, decorations, modifications')
    /\ last' = Did("clearDiffs", "true", 0)
    /\ UNCHANGED <<doc, selFrom, selTo, issued, autoVars, chat>>

\* acceptDiff, run with a dispatch function (editor.commands.acceptDiff).
\* schema.text throws a RangeError for an empty text and replaceWith for a
\* position outside the document: both before the storage is touched.
\* The replacement, the removal from the storage and the meta 'diffUpdate'
\* travel in one transaction, through which the selection is mapped.  An
\* accept that would make the document longer than MaxDocLen is not taken.
acceptDiff ==
    LET pos == selFrom
        i == FindModification(modifications, pos)
    IN  IF i = 0
        THEN /\ last' = Did("acceptDiff", "false", 0)
             /\ UNCHANGED <<doc, selFrom, selTo, modifications,
                            modificationCounter, decorations, issued,
                            autoVars, chat>>
        ELSE LET mod == modifications[i]
                 newDoc == ReplaceWith(doc, mod.from, mod.to, mod.newText)
             IN  IF mod.newText = <<>> \/ mod.from > mod.to
                                       \/ mod.to > Len(doc)
                 THEN /\ last' = Did("acceptDiff", "throw", 0)
                      /\ UNCHANGED <<doc, selFrom, selTo, modifications,
                                     modificationCounter, decorations,
                                     issued, autoVars, chat>>
                 ELSE /\ Len(newDoc) <= MaxDocLen
                      /\ doc' = newDoc
                      /\ selFrom' = MapPos(selFrom, mod.from, mod.to,
                                           Len(mod.newText))
                      /\ selTo' = MapPos(selTo, mod.from, mod.to,
                                         Len(mod.newText))
                      /\ modifications' = FilterOutId(modifications, mod.id)
                      /\ decorations' =
                             apply(TRUE, TRUE, decorations, modifications')
                      /\ last' = Did("acceptDiff", "true", 1)
                      /\ UNCHANGED <<modificationCounter, issued,
                                     autoVars, chat>>

\* The modifications a caller hands to addDiff: a span of the document as
\* it is when the modification is added and a replacement text, one of the
\* two not empty.
Proposal(from, to, newText) ==
    /\ 0 <= from /\ from <= to /\ to <= Len(doc)
    /\ newText \in NewTexts
    /\ from < to \/ newText # <<>>

addDiffCall ==
    \E from \in 0..Len(doc) : \E to \in from..Len(doc) :
        \E newText \in NewTexts :
            /\ Proposal(from, to, newText)
            /\ addDiff(from, to, newText)
            /\ UNCHANGED issued

Next ==
    \/ userSetCaret
    \/ userInsertText
    \/ userDeleteText
    \/ addDiffCall
    \/ clearDiffs
    \/ acceptDiff

Spec == Init /\ [][Next]_vars

\* The same commands with the ids they assign recorded, on a document the
\* user does not edit.
addDiffRecorded ==
    \E from \in 0..Len(doc) : \E to \in from..Len(doc) :
        \E newText \in NewTexts :
            /\ Proposal(from, to, newText)
            /\ addDiff(from, to, newText)
            /\ issued' =
                   [once |-> issued.once \cup {modificationCounter},
                    again |-> issued.again \cup
                                 (issued.once \cap {modificationCounter})]

NextIds ==
    \/ userSetCaret
    \/ addDiffRecorded
    \/ clearDiffs
    \/ acceptDiff

SpecIds == Init /\ [][NextIds]_vars

\* acceptDiff, run without a dispatch function (editor.can().acceptDiff():
\* tiptap hands the command its props with dispatch undefined).  The find,
\* schema.text and the steps on tr run as they do with a dispatch
\* function, and so does the filter of the storage, which stands before
\* `if (dispatch)`: the entry leaves the storage, the transaction is
\* dropped, and nothing is redrawn.
acceptDiffWithoutDispatch ==
    LET pos == selFrom
        i == FindModification(modifications, pos)
    IN  IF i = 0
        THEN /\ last' = Did("acceptDiff", "false", 0)
             /\ UNCHANGED <<doc, selFrom, selTo, diffVars, autoVars, chat>>
        ELSE LET mod == modifications[i]
             IN  IF mod.newText = <<>> \/ mod.from > mod.to
                                       \/ mod.to > Len(doc)
                 THEN /\ last' = Did("acceptDiff", "throw", 0)
                      /\ UNCHANGED <<doc, selFrom, selTo, diffVars,
                                     autoVars, chat>>
                 ELSE /\ modifications' = FilterOutId(modifications, mod.id)
                      /\ last' = Did("acceptDiff", "true", 0)
                      /\ UNCHANGED <<doc, selFrom, selTo,
                                     modificationCounter, decorations,
                                     issued, autoVars, chat>>

\* The commands of Spec, and acceptDiff as a dry run.
NextCan ==
    \/ userSetCaret
    \/ userInsertText
    \/ userDeleteText
    \/ addDiffCall
    \/ clearDiffs
    \/ acceptDiff
    \/ acceptDiffWithoutDispatch

SpecCan == Init /\ [][NextCan]_vars

\* =================================================================
\* The extension 'autocomplete' (MarkdownEditor.tsx 62-170): the plugin
\* 'suggestion' (the ghost text and its Tab handler) and the plugin
\* 'autocomplete-trigger' (the debounce timer and the fetch).

\* Under SpecDebounce time advances in steps of TickMs.
TickMs == 1000
\* The timer's callback starts no fetch while this many are in flight.
MaxInFlight == 2
\* The completions the backend may produce, and the type names of the
\* nodes the caret may be in.
Completions == { <<"c", "c">> }
NodeTypes == { "paragraph", "heading", "codeBlock" }

\* The node types handleKeyDown inserts a completion into.
TextBearing == { "paragraph", "heading", "text" }

\* doc.textBetween(from, to)
TextBetween(d, from, to) == SubSeq(d, from + 1, to)

\* The fetches pending without one of request r.
Settled(requests, r) == requests (-) SetToBag({r})

\* A captured state after the view has taken a new one.
Outdated(captured) == [captured EXCEPT !.state = "old"]

OutdatedAll(requests) == BagOfAll(Outdated, requests)

\* The prop `decorations` of the plugin 'suggestion': a widget with the
\* suggestion at the caret, nothing without a suggestion or with a
\* selection that is not empty.
suggestionDecorations(suggestion, from, to) ==
    IF suggestion = NoSuggestion THEN {}
    ELSE IF from # to THEN {}
    ELSE { [pos |-> from, text |-> suggestion] }

\* An update that leaves the suggestion alone.
updateSuggestionKept(suggestion, from, to) == suggestion

\* update of 'autocomplete-trigger', called with the state the view has
\* just taken: what it leaves in currentSuggestion ...
updateSuggestion(suggestion, from, to) ==
    IF from # to THEN NoSuggestion ELSE suggestion

\* ... and in suggestionTimer: with a selection that is not empty it
\* returns before clearTimeout, and the callback pending keeps the state
\* it captured; with a caret the timer is cleared and set again, its
\* callback capturing the new state and the text before the caret.
updateTimer(timer, d, from, to) ==
    IF from # to THEN Outdated(timer)
    ELSE [armed |-> TRUE, state |-> "current",
          text |-> TextBetween(d, 0, from), left |-> DebounceMs]

\* view.dispatch(tr) for a transaction that leaves the document d and the
\* selection [from, to], run while currentSuggestion is suggestion and
\* the fetches pending are in flight: the view takes the new state, so
\* what was captured before is no longer view.state; the decorations are
\* drawn; update is called, which with a selection that is not empty and
\* a suggestion clears the suggestion and dispatches once more.
dispatch(d, from, to, suggestion, pending) ==
    /\ doc' = d
    /\ selFrom' = from
    /\ selTo' = to
    /\ ghost' = suggestionDecorations(updateSuggestion(suggestion, from, to),
                                      from, to)
    /\ suggestionTimer' = updateTimer(suggestionTimer, d, from, to)
    /\ inflight' = OutdatedAll(pending)

\* A character key: handleKeyDown returns false, the key's default types
\* the character over the selection.
keyChar ==
    /\ Len(doc) - (selTo - selFrom) + 1 <= MaxDocLen
    /\ dispatch(ReplaceWith(doc, selFrom, selTo, <<TypedChar>>),
                selFrom + 1, selFrom + 1, currentSuggestion, inflight)
    /\ currentSuggestion' =
           updateSuggestion(currentSuggestion, selFrom + 1, selFrom + 1)
    /\ last' = Did("keyChar", "false", 1)
    /\ UNCHANGED <<nodeType, diffVars, chat>>

\* Backspace: handleKeyDown returns false, the key's default deletes the
\* selection, or the character before the caret.
keyBackspace ==
    LET from == IF selFrom < selTo THEN selFrom ELSE selFrom - 1
    IN  /\ from >= 0
        /\ dispatch(ReplaceWith(doc, from, selTo, <<>>), from, from,
                    currentSuggestion, inflight)
        /\ currentSuggestion' = updateSuggestion(currentSuggestion, from, from)
        /\ last' = Did("keyBackspace", "false", 1)
        /\ UNCHANGED <<nodeType, diffVars, chat>>

\* A click: a transaction that sets the caret.
click ==
    \E p \in 0..Len(doc) :
        /\ <<p, p>> # <<selFrom, selTo>>
        /\ dispatch(doc, p, p, currentSuggestion, inflight)
        /\ currentSuggestion' = updateSuggestion(currentSuggestion, p, p)
        /\ last' = Did("click", "none", 0)
        /\ UNCHANGED <<nodeType, diffVars, chat>>

\* A drag: a transaction that sets a selection that is not empty; update
\* clears a suggestion that is pending.
selectRange ==
    \E f \in 0..Len(doc) : \E t \in (f + 1)..Len(doc) :
        /\ <<f, t>> # <<selFrom, selTo>>
        /\ dispatch(doc, f, t, currentSuggestion, inflight)
        /\ currentSuggestion' = updateSuggestion(currentSuggestion, f, t)
        /\ last' = Did("selectRange",
                       IF currentSuggestion # NoSuggestion THEN "cleared"
                       ELSE "none", 0)
        /\ UNCHANGED <<nodeType, diffVars, chat>>

\* The node that holds the text made a node of another type (setNode, an
\* input rule): a transaction that changes the document.
setBlockType ==
    \E t \in NodeTypes \ {nodeType} :
        /\ nodeType' = t
        /\ dispatch(doc, selFrom, selTo, currentSuggestion, inflight)
        /\ currentSuggestion' =
               updateSuggestion(currentSuggestion, selFrom, selTo)
        /\ last' = Did("setBlockType", "none", 1)
        /\ UNCHANGED <<diffVars, chat>>

\* A key without a default effect on the editor (Escape): handleKeyDown
\* returns false and nothing is dispatched.
keyEscape ==
    /\ last' = Did("keyEscape", "false", 0)
    /\ UNCHANGED <<doc, selFrom, selTo, autoState, diffVars, chat>>

\* An insertText that leaves out the last character of the text.
insertTextAllButLast(d, text, from) ==
    ReplaceWith(d, from, from, SubSeq(text, 1, Len(text) - 1))

\* Transaction.insertText(text, from), to = from: the text inserted at
\* from, nothing deleted.
insertText(d, text, from) == ReplaceWith(d, from, from, text)

\* Tab: handleKeyDown.  Without a suggestion it returns false.  With one
\* it returns false when the caret's parent is not of a text-bearing
\* type; otherwise it dispatches the insertion of the suggestion at
\* selection.from (the caret is mapped to the end of the insertion, and
\* the view draws and calls update while currentSuggestion is still
\* set), then sets currentSuggestion to null and returns true.  A
\* completion is accepted only into a document shorter than MaxDocLen.
keyTab ==
    IF currentSuggestion = NoSuggestion \/ nodeType \notin TextBearing
    THEN /\ last' = Did("keyTab", "false", 0)
         /\ UNCHANGED <<doc, selFrom, selTo, autoState, diffVars, chat>>
    ELSE LET newDoc == insertText(doc, currentSuggestion, selFrom)
             caret == MapPos(selTo, selFrom, selFrom, Len(newDoc) - Len(doc))
         IN  /\ Len(doc) < MaxDocLen
             /\ dispatch(newDoc, caret, caret, currentSuggestion, inflight)
             /\ currentSuggestion' = NoSuggestion
             /\ last' = Did("keyTab", "true", 1)
             /\ UNCHANGED <<nodeType, diffVars, chat>>

\* The timer's callback runs, DebounceMs after it was set at the
\* earliest: it starts the fetch, with the text and the document of the
\* state it captured.
timeout ==
    /\ suggestionTimer.armed
    /\ suggestionTimer.left = 0
    /\ BagCardinality(inflight) < MaxInFlight
    /\ inflight' = inflight (+) SetToBag({[state |-> suggestionTimer.state,
                                           text |-> suggestionTimer.text]})
    /\ suggestionTimer' = TimerOff
    /\ last' = Did("timeout", "fetch", 0)
    /\ UNCHANGED <<doc, selFrom, selTo, currentSuggestion, ghost, nodeType,
                   diffVars, chat>>

\* ms milliseconds pass while the timer is running.
elapse(ms) ==
    /\ suggestionTimer.armed
    /\ suggestionTimer.left > 0
    /\ suggestionTimer' =
           [suggestionTimer EXCEPT !.left = IF @ > ms THEN @ - ms ELSE 0]
    /\ last' = Did("elapse", "none", 0)
    /\ UNCHANGED <<doc, selFrom, selTo, currentSuggestion, inflight, ghost,
                   nodeType, diffVars, chat>>

\* The fetch rejects (no network): the catch logs the error.
fetchThrows ==
    \E r \in BagToSet(inflight) :
        /\ inflight' = Settled(inflight, r)
        /\ last' = Did("fetchThrows", "caught", 0)
        /\ UNCHANGED <<doc, selFrom, selTo, currentSuggestion,
                       suggestionTimer, ghost, nodeType, diffVars, chat>>

\* A response that is not ok answered by sending the request again.
respondsNotOkRetried ==
    \E r \in BagToSet(inflight) :
        /\ last' = Did("respondsNotOk", "ignored", 0)
        /\ UNCHANGED <<doc, selFrom, selTo, currentSuggestion, inflight,
                       suggestionTimer, ghost, nodeType, diffVars, chat>>

\* The route answers 400 (no text before the caret) or 500 (generateText
\* threw): response.ok is false and nothing is done.
respondsNotOk ==
    \E r \in BagToSet(inflight) :
        /\ inflight' = Settled(inflight, r)
        /\ last' = Did("respondsNotOk", "ignored", 0)
        /\ UNCHANGED <<doc, selFrom, selTo, currentSuggestion,
                       suggestionTimer, ghost, nodeType, diffVars, chat>>

\* An install test that does not look at the state.
ShouldInstallInAnyState(completion, request) == completion # <<>>

\* `completion && view.state === state`
ShouldInstall(completion, request) ==
    completion # <<>> /\ request.state = "current"

\* The route answers 200 with a completion (the trimmed text of the
\* model, '' included), which it does only for a request with text: the
\* completion is installed and a transaction with the meta 'suggestion'
\* dispatched, or the response is dropped.
respondsOk ==
    \E r \in BagToSet(inflight) : \E completion \in Completions \cup {<<>>} :
        /\ r.text # <<>>
        /\ IF ShouldInstall(completion, r)
           THEN /\ dispatch(doc, selFrom, selTo, completion,
                            Settled(inflight, r))
                /\ currentSuggestion' =
                       updateSuggestion(completion, selFrom, selTo)
                /\ last' = Did("respondsOk", "installed", 0)
           ELSE /\ inflight' = Settled(inflight, r)
                /\ last' = Did("respondsOk",
                               IF completion = <<>> THEN "empty" ELSE "stale",
                               0)
                /\ UNCHANGED <<doc, selFrom, selTo, currentSuggestion,
                               suggestionTimer, ghost>>
        /\ UNCHANGED <<nodeType, diffVars, chat>>

\* The stopwatch burst, the count shown and the flag failed are kept by
\* SpecDebounce, SpecShown and SpecFetches; elsewhere they stand still.
observers == <<burst, shown, failed>>

\* The keyboard, the mouse and the completions, with the timer's callback
\* running while no fetch is pending (SpecFetches has the fetches that
\* overlap) and time passing a debounce window at a time.
NextAuto ==
    \/ keyChar /\ UNCHANGED observers
    \/ keyBackspace /\ UNCHANGED observers
    \/ click /\ UNCHANGED observers
    \/ selectRange /\ UNCHANGED observers
    \/ setBlockType /\ UNCHANGED observers
    \/ keyEscape /\ UNCHANGED observers
    \/ keyTab /\ UNCHANGED observers
    \/ inflight = EmptyBag /\ timeout /\ UNCHANGED observers
    \/ elapse(DebounceMs) /\ UNCHANGED observers
    \/ fetchThrows /\ UNCHANGED observers
    \/ respondsNotOk /\ UNCHANGED observers
    \/ respondsOk /\ UNCHANGED observers

SpecAuto == Init /\ [][NextAuto]_vars

\* The fetches under any latency: the user types, clicks and selects, the
\* timer's callback runs while fewer than MaxInFlight fetches are pending,
\* and the fetches settle in any order.  A fetch that throws, a response
\* that is not ok and a completion that is empty set the flag failed.
NextFetches ==
    \/ keyChar /\ UNCHANGED observers
    \/ keyBackspace /\ UNCHANGED observers
    \/ click /\ UNCHANGED observers
    \/ selectRange /\ UNCHANGED observers
    \/ timeout /\ UNCHANGED observers
    \/ elapse(DebounceMs) /\ UNCHANGED observers
    \/ fetchThrows /\ failed' = TRUE /\ UNCHANGED <<burst, shown>>
    \/ respondsNotOk /\ failed' = TRUE /\ UNCHANGED <<burst, shown>>
    \/ /\ respondsOk
       /\ failed' = (failed \/ last'.ret = "empty")
       /\ UNCHANGED <<burst, shown>>

SpecFetches == Init /\ [][NextFetches]_vars

\* The debounce against a stopwatch: burst is set back by every
\* transaction of the user (typed: by a key that edits the text), runs
\* with the time that passes, TickMs at a time, and notes the fetches
\* that start.
TypedInput == [typed |-> TRUE, since |-> 0, fetched |-> FALSE]
OtherInput == [typed |-> FALSE, since |-> 0, fetched |-> FALSE]

Later(b, ms) ==
    [b EXCEPT !.since = IF @ + ms < DebounceMs THEN @ + ms ELSE DebounceMs]

NextDebounce ==
    \/ keyChar /\ burst' = TypedInput /\ UNCHANGED <<shown, failed>>
    \/ keyBackspace /\ burst' = TypedInput /\ UNCHANGED <<shown, failed>>
    \/ click /\ burst' = OtherInput /\ UNCHANGED <<shown, failed>>
    \/ selectRange /\ burst' = OtherInput /\ UNCHANGED <<shown, failed>>
    \/ /\ timeout
       /\ burst' = [burst EXCEPT !.fetched = TRUE]
       /\ UNCHANGED <<shown, failed>>
    \/ /\ elapse(TickMs)
       /\ burst' = Later(burst, TickMs)
       /\ UNCHANGED <<shown, failed>>
    \/ respondsNotOk /\ UNCHANGED observers
    \/ respondsOk /\ UNCHANGED observers

SpecDebounce == Init /\ [][NextDebounce]_vars

\* The suggestions shown on one open document, counted: shown goes up by
\* one with every completion that is installed, up to MaxShown.
MaxShown == 6

NextShown ==
    \/ keyChar /\ UNCHANGED observers
    \/ keyBackspace /\ UNCHANGED observers
    \/ click /\ UNCHANGED observers
    \/ keyTab /\ UNCHANGED observers
    \/ inflight = EmptyBag /\ timeout /\ UNCHANGED observers
    \/ elapse(DebounceMs) /\ UNCHANGED observers
    \/ /\ shown < MaxShown
       /\ respondsOk
       /\ shown' = IF last'.ret = "installed" THEN shown + 1 ELSE shown
       /\ UNCHANGED <<burst, failed>>

SpecShown == Init /\ [][NextShown]_vars

\* ------------------------------------------- Layout: generateAIContent
\* generateAIContent in agent mode, with an input, an API key and the
\* editor: up to its await of fetch('/api/chat') it sets isGenerating and
\* reads the document into its local currentContent, which it sends (the
\* local is gone when the call ends).
\* It returns at once while a request is pending.
generateAIContent ==
    /\ ~chat.isGenerating
    /\ chat' = [chat EXCEPT !.isGenerating = TRUE, !.currentContent = doc]
    /\ last' = Did("generateAIContent", "fetch", 0)
    /\ UNCHANGED <<doc, selFrom, selTo, diffVars, autoVars>>

\* The batches a response of type 'modification' may carry: up to
\* MaxBatch modifications of the document that was sent, each a span of it
\* and a replacement text, one of the two not empty.
MaxBatch == 1

BatchesUpTo(n) ==
    LET proposals ==
            { p \in [from : 0..Len(chat.currentContent),
                     to : 0..Len(chat.currentContent),
                     newText : NewTexts] :
                  /\ p.from <= p.to
                  /\ p.from < p.to \/ p.newText # <<>> }
    IN  UNION { [1..k -> proposals] : k \in 0..n }

Batches == BatchesUpTo(MaxBatch)

\* The storage after clearDiffs and one addDiff for every modification of
\* the batch, in the order of the batch (the sort's comparator,
\* a.from - a.from, is 0 for every pair and keeps the order).
addDiffs(batch) ==
    [i \in 1..Len(batch) |->
        Modification(i - 1, batch[i].from, batch[i].to, batch[i].newText)]

\* The response is ok and of type 'modification': clearDiffs, addDiff for
\* each modification, the message about the suggested changes, and
\* isGenerating back to false.
chatRespondsWith(batch) ==
    /\ chat.isGenerating
    /\ modifications' = addDiffs(batch)
    /\ modificationCounter' = Len(batch)
    /\ decorations' = apply(TRUE, FALSE, decorations, modifications')
    /\ chat' = [isGenerating |-> FALSE, aiOutput |-> "suggested",
                currentContent |-> <<>>]
    /\ last' = Did("chatRespondsModifications", "true", 1 + Len(batch))
    /\ UNCHANGED <<doc, selFrom, selTo, issued, autoVars>>

chatRespondsModifications ==
    \E batch \in Batches : chatRespondsWith(batch)

\* A catch that shows the message and leaves the diffs alone.
chatRespondsInvalidFormatDiffsKept ==
    /\ chat.isGenerating
    /\ chat' = [isGenerating |-> FALSE, aiOutput |-> "error",
                currentContent |-> <<>>]
    /\ last' = Did("chatRespondsInvalidFormat",
                   IF modifications # <<>> THEN "cleared" ELSE "empty", 0)
    /\ UNCHANGED <<doc, selFrom, selTo, diffVars, autoVars>>

\* The route could not parse the modifications and answers 400 with an
\* error: response.ok is false, generateAIContent throws, and its catch
\* shows `Error: ...` and calls clearDiffs; finally isGenerating is back
\* to false.  last.ret tells whether there were diffs to clear.
chatRespondsInvalidFormat ==
    /\ chat.isGenerating
    /\ chat' = [isGenerating |-> FALSE, aiOutput |-> "error",
                currentContent |-> <<>>]
    /\ modifications' = <<>>
    /\ modificationCounter' = 0
    /\ decorations' = apply(TRUE, FALSE, decorations, modifications')
    /\ last' = Did("chatRespondsInvalidFormat",
                   IF modifications # <<>> THEN "cleared" ELSE "empty", 1)
    /\ UNCHANGED <<doc, selFrom, selTo, issued, autoVars>>

\* The user types and accepts at the caret while the chat panel sends
\* requests that the backend answers with modifications or with the parse
\* error.
NextChat ==
    \/ userInsertText
    \/ acceptDiff
    \/ generateAIContent
    \/ chatRespondsModifications
    \/ chatRespondsInvalidFormat

SpecChat == Init /\ [][NextChat]_vars

\* The responses with one modification more than MaxBatch, over a document
\* the user types into between the requests.
chatRespondsLongerBatch ==
    \E batch \in BatchesUpTo(MaxBatch + 1) : chatRespondsWith(batch)

NextBatch ==
    \/ userInsertText
    \/ generateAIContent
    \/ chatRespondsLongerBatch
    \/ chatRespondsInvalidFormat

SpecBatch == Init /\ [][NextBatch]_vars

\* ------------------------------------------------ the diff Tab handler
\* A replacement text of two characters, for the modifications whose
\* widened range reaches further than one position past their span.
LongTexts == { <<"x", "y">> }

addDiffLongCall ==
    \E from \in 0..Len(doc) : \E to \in from..Len(doc) :
        \E newText \in NewTexts \cup LongTexts :
            /\ from < to \/ newText # <<>>
            /\ addDiff(from, to, newText)
            /\ UNCHANGED issued

\* isNearModificationCheck: some stored modification has the caret within
\* its span or one position after it.
isNearModificationCheck(mods, pos) ==
    \E i \in DOMAIN mods : pos >= mods[i].from /\ pos <= mods[i].to + 1

\* Tab, as the plugin 'diffTabHandler' handles it: near a modification it
\* runs editor.commands.acceptDiff() and reports the key as handled when
\* that returned true; elsewhere it returns false without running it.
diffTabHandler ==
    IF isNearModificationCheck(modifications, selFrom)
    THEN acceptDiff
    ELSE /\ last' = Did("diffTab", "false", 0)
         /\ UNCHANGED <<doc, selFrom, selTo, diffVars, autoVars, chat>>

\* The store with short and long replacement texts, accepted by Tab only.
NextTab ==
    \/ userSetCaret
    \/ userInsertText
    \/ userDeleteText
    \/ addDiffLongCall
    \/ clearDiffs
    \/ diffTabHandler

SpecTab == Init /\ [][NextTab]_vars

\* --------------------------------------------- accept over a selection
\* A drag in the editor: the selection set to a range that is not empty.
userSelectRange ==
    \E f \in 0..Len(doc) : \E t \in (f + 1)..Len(doc) :
        userSetSelection(f, t)

\* The store under carets and range selections.
NextRange ==
    \/ userSetCaret
    \/ userSelectRange
    \/ userInsertText
    \/ userDeleteText
    \/ addDiffCall
    \/ acceptDiff

SpecRange == Init /\ [][NextRange]_vars

\* =================================================================
\* The properties of the suggestion store, stated on the steps and the
\* states of the specifications above.

\* The caret lies in the widened range [from, to + len(newText)] of m.
InWidenedRange(m, pos) == m.from <= pos /\ pos <= m.to + Len(m.newText)

\* The indices of the stored modifications whose widened range holds pos.
Matching(mods, pos) == { i \in DOMAIN mods : InWidenedRange(mods[i], pos) }

\* new is old with exactly the span [from, to) replaced by text.
SpanReplaced(old, new, from, to, text) ==
    /\ 0 <= from /\ from <= to /\ to <= Len(old)
    /\ Len(new) = Len(old) - (to - from) + Len(text)
    /\ \A k \in 1..from : new[k] = old[k]
    /\ \A k \in 1..Len(text) : new[from + k] = text[k]
    /\ \A k \in (to + 1)..Len(old) :
           new[k - (to - from) + Len(text)] = old[k]

\* mods without its i-th element.
WithoutIndex(mods, i) ==
    [k \in 1..(Len(mods) - 1) |-> IF k < i THEN mods[k] ELSE mods[k + 1]]

IdsOf(mods) == { mods[i].id : i \in DOMAIN mods }

AcceptedStep == last'.op = "acceptDiff" /\ last'.ret = "true"

\* C1: pending modifications are not committed to the document: a step of
\* addDiff or of clearDiffs changes the store and the decorations only and
\* leaves the document (and the selection) as it was, and a step of a store
\* command that changes the document is an acceptDiff that returned true.
C1_PendingNotCommitted ==
    [][ /\ last'.op \in {"addDiff", "clearDiffs"}
            => doc' = doc /\ selFrom' = selFrom /\ selTo' = selTo
        /\ (last'.op \in {"addDiff", "clearDiffs", "acceptDiff"}
              /\ doc' # doc)
            => AcceptedStep ]_vars

\* C1's case: a modification was just added over a document with text, and
\* two modifications are pending.
C1_Witness ==
    /\ last.op = "addDiff"
    /\ Len(doc) = 2
    /\ Len(modifications) = 2
    /\ \E i \in DOMAIN modifications :
           modifications[i].from < modifications[i].to

C3_NoMatchNoChange ==
    [][ (last'.op = "acceptDiff" /\ Matching(modifications, selFrom) = {})
          => /\ last'.ret = "false"
             /\ doc' = doc
             /\ modifications' = modifications
             /\ modificationCounter' = modificationCounter ]_vars

\* C3's case: acceptDiff returned false while a modification was pending.
C3_Witness ==
    /\ last.op = "acceptDiff"
    /\ last.ret = "false"
    /\ modifications # <<>>
    /\ Matching(modifications, selFrom) = {}

\* C4: position validity: every stored modification satisfies
\* 0 <= from <= to <= length of the current document, in every state.
C4_PositionValidity ==
    \A i \in DOMAIN modifications :
        /\ 0 <= modifications[i].from
        /\ modifications[i].from <= modifications[i].to
        /\ modifications[i].to <= Len(doc)

\* An offset through an insertion of length L at offset P.
ThroughInsert(off, P, L) == IF off >= P THEN off + L ELSE off

\* An offset through a deletion of [P, Q).
ThroughDelete(off, P, Q) ==
    IF off >= Q THEN off - (Q - P) ELSE IF off > P THEN P ELSE off

\* C5: remapping through edits: after a document-changing transaction of
\* the user the stored from/to are the old ones translated by the
\* transaction's position map: an insertion of length L at P shifts the
\* offsets >= P by L, a deletion of [P, Q) collapses the offsets inside to
\* P and shifts the offsets >= Q by -(Q - P).
C5_RemappedThroughEdits ==
    [][ /\ (last'.op = "insertText" /\ selFrom = selTo) =>
              /\ Len(modifications') = Len(modifications)
              /\ \A i \in DOMAIN modifications :
                   /\ modifications'[i].from =
                          ThroughInsert(modifications[i].from, selFrom, 1)
                   /\ modifications'[i].to =
                          ThroughInsert(modifications[i].to, selFrom, 1)
        /\ (last'.op = "deleteText" /\ selFrom = selTo) =>
              /\ Len(modifications') = Len(modifications)
              /\ \A i \in DOMAIN modifications :
                   /\ modifications'[i].from =
                          ThroughDelete(modifications[i].from,
                                        selFrom - 1, selFrom)
                   /\ modifications'[i].to =
                          ThroughDelete(modifications[i].to,
                                        selFrom - 1, selFrom) ]_vars

\* C6: sequential accepts: after acceptDiff has applied a modification A,
\* every modification B left in the store has from/to that are offsets of
\* the new document, and a B that lay after A's span has been moved by the
\* length change len(A.newText) - (A.to - A.from).
C6_SequentialAccepts ==
    [][ AcceptedStep =>
          /\ \A j \in DOMAIN modifications' :
               /\ 0 <= modifications'[j].from
               /\ modifications'[j].from <= modifications'[j].to
               /\ modifications'[j].to <= Len(doc')
          /\ \A i \in DOMAIN modifications :
               modifications[i].id \notin IdsOf(modifications') =>
                 LET A == modifications[i]
                     delta == Len(A.newText) - (A.to - A.from)
                 IN  \A k \in DOMAIN modifications :
                       (k # i /\ modifications[k].from >= A.to) =>
                         \E j \in DOMAIN modifications' :
                           /\ modifications'[j].id = modifications[k].id
                           /\ modifications'[j].from =
                                  modifications[k].from + delta
                           /\ modifications'[j].to =
                                  modifications[k].to + delta ]_vars

\* C7: one resolution per accept, first found: when the widened ranges of
\* several stored modifications hold the caret, acceptDiff applies and
\* removes the earliest of them in store order and no other: the store is
\* the old one without that entry, one entry shorter.
C7_OneResolutionFirstFound ==
    [][ (last'.op = "acceptDiff"
           /\ Cardinality(Matching(modifications, selFrom)) >= 2) =>
          LET hits == Matching(modifications, selFrom)
              first == CHOOSE i \in hits : \A j \in hits : i <= j
              m == modifications[first]
          IN  /\ last'.ret = "true"
              /\ Len(modifications') = Len(modifications) - 1
              /\ modifications' = WithoutIndex(modifications, first)
              /\ SpanReplaced(doc, doc', m.from, m.to, m.newText) ]_vars

\* C8: the match predicate of accept: acceptDiff resolves a modification
\* (returns true and removes it) if and only if some stored m satisfies
\* m.from <= pos <= m.to + len(m.newText) for the caret pos.
C8_MatchPredicate ==
    [][ last'.op = "acceptDiff" =>
          ( (/\ last'.ret = "true"
             /\ Len(modifications') = Len(modifications) - 1)
            <=> Matching(modifications, selFrom) # {} ) ]_vars

\* C9: idempotent clear: clearDiffs leaves an empty store, a clearDiffs
\* that follows a clearDiffs leaves the same empty store again, and over
\* an empty store no decoration is rendered.
C9_IdempotentClear ==
    [][ /\ last'.op = "clearDiffs" =>
              /\ modifications' = <<>>
              /\ modificationCounter' = 0
              /\ decorations' = {}
        /\ (last.op = "clearDiffs" /\ last'.op = "clearDiffs") =>
              /\ modifications' = modifications
              /\ modificationCounter' = modificationCounter
              /\ decorations' = decorations
        /\ modifications' = <<>> => decorations' = {} ]_vars

\* C9's case: the store was cleared over a document with text, after ids
\* had been assigned.
C9_Witness ==
    /\ last.op = "clearDiffs"
    /\ modifications = <<>>
    /\ decorations = {}
    /\ Len(doc) = 2

C11_AcceptOneTransaction ==
    [][ last'.op = "acceptDiff" =>
          \/ /\ modifications' = modifications
             /\ doc' = doc
             /\ last'.tr = 0
          \/ /\ last'.tr = 1
             /\ \E i \in DOMAIN modifications :
                  LET m == modifications[i]
                  IN  /\ modifications' = WithoutIndex(modifications, i)
                      /\ SpanReplaced(doc, doc', m.from, m.to, m.newText)
      ]_vars

\* =================================================================
\* The properties of the inline completion.

\* C12: stale completion discard: a response is installed as the pending
\* suggestion (and drawn) only for a request whose captured state still
\* is the state of the view, so that the text it was asked for is the text
\* before the caret; a response for a request whose state the view has
\* left changes neither the pending suggestion nor what is drawn.
C12_StaleCompletionDiscard ==
    [][ last'.op = "respondsOk" =>
          /\ last'.ret = "installed" =>
                /\ selFrom = selTo
                /\ doc' = doc /\ selFrom' = selFrom /\ selTo' = selTo
                /\ ghost' = { [pos |-> selFrom, text |-> currentSuggestion'] }
                /\ \E r \in BagToSet(inflight) :
                     /\ r.state = "current"
                     /\ r.text = TextBetween(doc, 0, selFrom)
                     /\ inflight' = OutdatedAll(Settled(inflight, r))
          /\ (\A r \in BagToSet(inflight) : r.state = "old") =>
                /\ last'.ret # "installed"
                /\ currentSuggestion' = currentSuggestion
                /\ ghost' = ghost
      ]_vars

\* C12's case: a completion arrived for a request whose state the view had
\* left (the user had typed on) and was not installed.
C12_Witness ==
    /\ last.op = "respondsOk"
    /\ last.ret = "stale"
    /\ currentSuggestion = NoSuggestion
    /\ ghost = {}
    /\ Len(doc) = 2

\* C14: at most one active fetch: never are two completion requests in
\* flight at the same time.
C14_OneFetchInFlight == BagCardinality(inflight) <= 1

\* C13: debounce suppression: the keystrokes of a burst (each within
\* DebounceMs of the one before) produce at most one fetch, and that one
\* only after a full DebounceMs since the last of them: a fetch that
\* starts while the user's last transaction is a typed one starts
\* DebounceMs or more after it, and is the first to start since.
C13_DebounceSuppression ==
    [][ (last'.op = "timeout" /\ burst.typed) =>
          /\ burst.since >= DebounceMs
          /\ ~burst.fetched ]_vars

\* C15: keystroke invalidation: a key other than Tab pressed while a
\* completion is showing leaves no pending suggestion and no ghost text,
\* and a key without a default effect leaves the document as it was.
C15_KeystrokeInvalidates ==
    [][ (last'.op \in {"keyChar", "keyBackspace", "keyEscape"}
           /\ currentSuggestion # NoSuggestion) =>
          /\ currentSuggestion' = NoSuggestion
          /\ ghost' = {}
          /\ last'.op = "keyEscape" => doc' = doc ]_vars

\* C16: range-selection invalidation: when the selection stops being a
\* caret while a suggestion is pending, the suggestion is cleared, no
\* ghost text is drawn, and the document is as it was.
C16_RangeSelectionInvalidates ==
    [][ (selFrom = selTo /\ selFrom' # selTo'
           /\ currentSuggestion # NoSuggestion) =>
          /\ currentSuggestion' = NoSuggestion
          /\ ghost' = {}
          /\ doc' = doc ]_vars

\* C16's case: the user selected a range while a suggestion was pending.
C16_Witness ==
    /\ last.op = "selectRange"
    /\ last.ret = "cleared"
    /\ selFrom < selTo
    /\ currentSuggestion = NoSuggestion
    /\ ghost = {}

\* C17: completion accept: Tab with a suggestion pending and the caret in
\* a paragraph or a heading inserts the whole suggestion at the caret in
\* one transaction, leaves no pending suggestion and returns true; with
\* the caret in a node that is not text-bearing the document is as it was.
C17_CompletionAccept ==
    [][ (last'.op = "keyTab" /\ currentSuggestion # NoSuggestion) =>
          IF nodeType \in {"paragraph", "heading"}
          THEN /\ last'.ret = "true"
               /\ last'.tr = 1
               /\ Len(doc') = Len(doc) + Len(currentSuggestion)
               /\ SpanReplaced(doc, doc', selFrom, selFrom, currentSuggestion)
               /\ currentSuggestion' = NoSuggestion
          ELSE /\ last'.ret = "false"
               /\ doc' = doc ]_vars

\* C17's case: Tab has inserted the suggestion "cc" after the typed "a".
C17_Witness ==
    /\ last.op = "keyTab"
    /\ last.ret = "true"
    /\ doc = <<TypedChar, "c", "c">>
    /\ selFrom = 3
    /\ currentSuggestion = NoSuggestion

\* C18: shown-count budget: a fetch starts only while fewer than 5
\* suggestions have been shown on the open document, and never more than
\* 5 are shown.
C18_ShownBudget ==
    [][ /\ last'.op = "timeout" => shown < 5
        /\ shown' <= 5 ]_vars

\* C19: a completion fetch that fails is not fatal: when the fetch throws,
\* the response is not ok, or the completion is empty, the pending
\* suggestion, its ghost text, the document and the selection are as they
\* were, and nothing is retried: the timer is as it was and the request is
\* gone without a new one in its place.
C19_FetchFailureNotFatal ==
    [][ (\/ last'.op \in {"fetchThrows", "respondsNotOk"}
         \/ last'.op = "respondsOk" /\ last'.ret = "empty") =>
          /\ currentSuggestion' = currentSuggestion
          /\ ghost' = ghost
          /\ doc' = doc
          /\ selFrom' = selFrom /\ selTo' = selTo
          /\ suggestionTimer' = suggestionTimer
          /\ BagCardinality(inflight') = BagCardinality(inflight) - 1 ]_vars

\* C19's case: after a fetch has failed, a later window of inactivity has
\* started a new fetch.
C19_Witness ==
    /\ failed
    /\ last.op = "timeout"
    /\ BagCardinality(inflight) = 1

\* ----------------------------------- The properties of the chat panel
\* C20 as stated: a modification response that cannot be parsed shows a
\* message and leaves the store with exactly the modifications it had.
C20_MalformedLeavesStore ==
    [][ last'.op = "chatRespondsInvalidFormat" =>
          /\ chat'.aiOutput = "error"
          /\ modifications' = modifications ]_vars

\* C20, amended: a modification response that cannot be parsed shows a
\* message and empties the store: no modification and no decoration is
\* left, nothing of the batch is applied, the document is as it was, and
\* the panel is ready for the next request.
C20_MalformedClearsStore ==
    [][ last'.op = "chatRespondsInvalidFormat" =>
          /\ chat'.aiOutput = "error"
          /\ ~chat'.isGenerating
          /\ modifications' = <<>>
          /\ decorations' = {}
          /\ doc' = doc ]_vars

\* C20's case: the parse error arrived while modifications were pending.
C20_Witness ==
    /\ last.op = "chatRespondsInvalidFormat"
    /\ last.ret = "cleared"
    /\ chat.aiOutput = "error"
    /\ modifications = <<>>

\* ------------------------------- The properties of the later claims
\* What the store is to show over the document: for every stored
\* modification a delete marker over its span, where the span covers
\* anything, and an insert widget at its end that shows newText.
Projected(mods) ==
    { [type |-> "inline", from |-> mods[i].from, to |-> mods[i].to,
       text |-> <<>>, id |-> mods[i].id] :
          i \in { j \in DOMAIN mods : mods[j].from < mods[j].to } }
    \cup
    { [type |-> "widget", from |-> mods[i].to, to |-> mods[i].to,
       text |-> mods[i].newText, id |-> mods[i].id] : i \in DOMAIN mods }

\* The last step dispatched a transaction.
AfterTransaction ==
    \/ last.op \in {"setSelection", "insertText", "deleteText",
                    "addDiff", "clearDiffs"}
    \/ last.op = "acceptDiff" /\ last.tr = 1

\* C21: decorations reflect the latest document and store: in every state
\* reached by a transaction the decorations drawn are those of the
\* modifications now in the store, and of no other.
C21_DecorationsReflectStore ==
    AfterTransaction => decorations = Projected(modifications)

\* C22: the state order of the completion controller: a completion is
\* installed only while none is showing and the installing arms no timer,
\* and a fetch starts only while none is showing: a suggestion that is
\* showing is not replaced without an accept or an invalidation.
C22_ControllerStateOrder ==
    [][ /\ (last'.op = "respondsOk" /\ last'.ret = "installed") =>
              /\ currentSuggestion = NoSuggestion
              /\ ~suggestionTimer'.armed
        /\ last'.op = "timeout" => currentSuggestion = NoSuggestion ]_vars

\* C23: no fetch for a range selection: a fetch starts only while the
\* selection is a caret, so a timer armed before the selection became a
\* range does not go on to fetch.
C23_NoFetchForRange ==
    [][ last'.op = "timeout" => selFrom = selTo ]_vars

\* C24: the completion's anchor: once the caret has moved or the document
\* has changed under a pending suggestion (by anything but its accept),
\* the suggestion is not drawn at the new position and is not pending for
\* a Tab there.
C24_CompletionAnchor ==
    [][ (/\ currentSuggestion # NoSuggestion
         /\ last'.op # "keyTab"
         /\ selFrom' # selFrom \/ doc' # doc) =>
          /\ ghost' = {}
          /\ currentSuggestion' = NoSuggestion ]_vars

\* C25: Tab reaches accept over the whole widened range: the Tab handler
\* turns the key down without running acceptDiff only when no stored
\* modification has from <= pos <= to + len(newText) for the caret pos.
C25_TabReachesAccept ==
    [][ (last'.op = "diffTab" /\ last'.ret = "false") =>
          Matching(modifications, selFrom) = {} ]_vars

\* C26: accept with a range selection is a no match: acceptDiff run over
\* a selection that is not empty returns false and changes neither the
\* document nor the store.
C26_RangeSelectionNoMatch ==
    [][ (last'.op = "acceptDiff" /\ selFrom < selTo) =>
          /\ last'.ret = "false"
          /\ doc' = doc
          /\ modifications' = modifications ]_vars

\* C27: a fresh batch replaces the old one: after a modification response
\* the store holds the modifications of that response and no other, in
\* ascending order of from; after a request error the store is empty.
C27_FreshBatchSorted ==
    [][ /\ last'.op = "chatRespondsModifications" =>
              /\ Len(modifications') = last'.tr - 1
              /\ \A i, j \in DOMAIN modifications' :
                     i < j => modifications'[i].from <= modifications'[j].from
        /\ last'.op = "chatRespondsInvalidFormat" =>
              modifications' = <<>> ]_vars

\* C28: asynchronous modification responses are checked for staleness:
\* when the document is no longer the one that was sent with the request,
\* the modifications of the response are not added to the store.
C28_ResponseStalenessCheck ==
    [][ (last'.op = "chatRespondsModifications"
           /\ doc # chat.currentContent) =>
          modifications' \in {<<>>, modifications} ]_vars

\* C29: a pending completion implies a caret: in every state, when a
\* suggestion is pending or ghost text is drawn the selection is empty.
C29_PendingImpliesCaret ==
    (currentSuggestion # NoSuggestion \/ ghost # {}) => selFrom = selTo

\* C29's case: a completion has been installed at the caret after two
\* typed characters, and its ghost text is drawn there.
C29_Witness ==
    /\ last.op = "respondsOk"
    /\ last.ret = "installed"
    /\ currentSuggestion # NoSuggestion
    /\ ghost = { [text |-> currentSuggestion, pos |-> 2] }
    /\ selFrom = 2 /\ selTo = 2

\* C30: no ghost after accept: in the state drawn by a Tab that accepted
\* a completion the accepted text is in the document, at the caret the
\* Tab was pressed at, and no ghost text is drawn.
C30_NoGhostAfterAccept ==
    [][ (last'.op = "keyTab" /\ last'.ret = "true") =>
          /\ Len(doc') = Len(doc) + Len(currentSuggestion)
          /\ SpanReplaced(doc, doc', selFrom, selFrom, currentSuggestion)
          /\ ghost' = {} ]_vars

====
